---------------------------- MODULE Spec2Model ----------------------------
(***************************************************************************)
(* The user permission store of the web client                             *)
(* (src/web/core/store/user/permissions.store.ts): three observable maps,  *)
(* three computed lookups and six asynchronous actions.  Every asynchronous *)
(* action is a call (up to its await of the remote service) followed, when  *)
(* the remote call settles, by the continuation of the try block or by the  *)
(* catch block.  The runtime is single threaded: each continuation runs to  *)
(* completion, so it is one step of the model.                              *)
(*                                                                         *)
(* The all-issues view (src/unnamed/part_000, AllIssueLayoutRoot) is       *)
(* modelled beside it: the fetchers of its two useSWR hooks, one step per   *)
(* await, and the edit gate canEditProperties / renderQuickActions over the *)
(* project roles of the current workspace.                                 *)
(***************************************************************************)
EXTENDS Naturals, Sequences, FiniteSets, Bags

(***************************************************************************)
(* Bounds of the model.                                                    *)
(***************************************************************************)
\* remote calls that may be outstanding at the same time
MaxInFlight == 2
\* store actions called in one run
MaxCalls == 2

Workspaces == {"ws1", "ws2"}
Projects == {"p1", "p2"}
\* an omitted (undefined) or empty identifier: both are falsy
NoId == ""

(***************************************************************************)
(* EUserPermissions and EUserPermissionsLevel.                             *)
(***************************************************************************)
ADMIN == 20
MEMBER == 15
GUEST == 5
Roles == {GUEST, MEMBER, ADMIN}
WORKSPACE == "WORKSPACE"
PROJECT == "PROJECT"
Levels == {WORKSPACE, PROJECT}

(***************************************************************************)
(* Run-time values.  Every value has the same three fields so that any two *)
(* of them can be compared: undefined, a membership record                 *)
(* (IWorkspaceMemberMe, IProjectMember: only the role field is read), a    *)
(* role number, a plain object keyed by identifiers (IUserProjectsRole,    *)
(* the inner objects of projectUserInfo), and the TypeError raised by a    *)
(* property read on undefined.                                             *)
(***************************************************************************)
EmptyMap == [k \in {} |-> 0]
Undefined == [kind |-> "undefined", role |-> 0, entries |-> EmptyMap]
TypeError == [kind |-> "TypeError", role |-> 0, entries |-> EmptyMap]
MemberRecord(r) == [kind |-> "member", role |-> r, entries |-> EmptyMap]
RoleValue(r) == [kind |-> "role", role |-> r, entries |-> EmptyMap]
PlainObject(m) == [kind |-> "object", role |-> 0, entries |-> m]

Truthy(v) == /\ v.kind # "undefined"
             /\ ~(v.kind = "role" /\ v.role = 0)
isObject(v) == v.kind \in {"object", "member"}

Put(f, k, v) == [x \in DOMAIN f \cup {k} |-> IF x = k THEN v ELSE f[x]]
Del(f, k) == [x \in DOMAIN f \ {k} |-> f[x]]

\* lodash set(object, path, value): missing or non-object links of the path
\* are replaced by fresh objects.  Paths are sequences of keys; the string
\* paths of leaveWorkspace are single keys (identifiers hold no "." or "[").
lodashSet(object, path, value) ==
  IF Len(path) = 1
  THEN Put(object, path[1], value)
  ELSE LET objValue == IF path[1] \in DOMAIN object THEN object[path[1]] ELSE Undefined
           nested == IF isObject(objValue) THEN objValue.entries ELSE EmptyMap
       IN  Put(object, path[1], PlainObject(Put(nested, path[2], value)))

\* lodash unset(object, path): deletes the last key of the path from its
\* parent, and does nothing when the parent is missing or undefined
lodashUnset(object, path) ==
  IF Len(path) = 1
  THEN Del(object, path[1])
  ELSE IF path[1] \in DOMAIN object /\ isObject(object[path[1]])
       THEN Put(object, path[1], PlainObject(Del(object[path[1]].entries, path[2])))
       ELSE object

(***************************************************************************)
(* Responses of the remote services.                                       *)
(***************************************************************************)
PartialRoleMaps == UNION {[D -> {RoleValue(r) : r \in Roles}] : D \in SUBSET Projects}
MemberResponses == {Undefined} \cup {MemberRecord(r) : r \in Roles}
JoinResponses == {Undefined} \cup {RoleValue(r) : r \in Roles}
ProjectsRoleResponses == {Undefined} \cup {PlainObject(m) : m \in PartialRoleMaps}

VARIABLES
  workspaceUserInfo,   \* workspaceSlug -> IWorkspaceMemberMe
  projectUserInfo,     \* workspaceSlug -> projectId -> IProjectMember
  projectPermissions,  \* workspaceSlug -> IUserProjectsRole
  router,              \* store.router: the current workspaceSlug and projectId
  inflight,            \* bag of the calls awaiting their remote service
  settled,             \* the promise settled last: how the action ended for its
                       \* caller, the three maps as its continuation found them,
                       \* the calls it left in flight, and the action of the same
                       \* workspace whose response it raced with, if any
  leftWorkspaces,      \* history: the workspaces a leaveWorkspace has succeeded for
  lastWorkspaceInfo,   \* history: workspaceSlug -> the record of the fetchUserWorkspaceInfo
                       \* committed last, with no leaveWorkspace committed after it
  calls,               \* number of store actions called so far
  \* the all-issues spreadsheet view (AllIssueLayoutRoot)
  query,               \* router.query: workspaceSlug, globalViewId, and whether it
                       \* holds other keys (routeFilters)
  loaderRuns,          \* the runs of the fetchers given to useSWR, each with the
                       \* query it was started under and the calls it has made
  currentWorkspaceAllProjectsRole,  \* membership.currentWorkspaceAllProjectsRole
  quickActions         \* the AllIssueQuickActions element rendered last

maps == <<workspaceUserInfo, projectUserInfo, projectPermissions>>
storeVars == <<workspaceUserInfo, projectUserInfo, projectPermissions, router, inflight, settled,
               leftWorkspaces, lastWorkspaceInfo, calls>>
viewVars == <<query, loaderRuns, currentWorkspaceAllProjectsRole, quickActions>>
vars == <<workspaceUserInfo, projectUserInfo, projectPermissions, router, inflight, settled,
          leftWorkspaces, lastWorkspaceInfo, calls, query, loaderRuns,
          currentWorkspaceAllProjectsRole, quickActions>>

Request(op, ws, p) == [op |-> op, workspaceSlug |-> ws, projectId |-> p]

\* two responses race when the continuation of the first runs while the call
\* of the second is in flight; what is kept of the first is its action
NoRace == [op |-> "none", projectId |-> NoId]

NotSettled ==
  [op |-> "none", workspaceSlug |-> NoId, projectId |-> NoId,
   remote |-> "none", response |-> Undefined, outcome |-> "none", value |-> Undefined,
   before |-> <<EmptyMap, EmptyMap, EmptyMap>>, alongside |-> EmptyBag,
   raced |-> NoRace]

\* the view is not mounted
NoQuery == [workspaceSlug |-> NoId, globalViewId |-> NoId, routeFilters |-> FALSE]
NotRendered == [issue |-> [id |-> NoId, project_id |-> NoId], readOnly |-> FALSE]
ViewUnmounted ==
  /\ query = NoQuery
  /\ loaderRuns = <<>>
  /\ currentWorkspaceAllProjectsRole = Undefined
  /\ quickActions = NotRendered

Init ==
  /\ ViewUnmounted
  /\ workspaceUserInfo = EmptyMap
  /\ projectUserInfo = EmptyMap
  /\ projectPermissions = EmptyMap
  /\ router = [workspaceSlug |-> NoId, projectId |-> NoId]
  /\ inflight = EmptyBag
  /\ settled = NotSettled
  /\ leftWorkspaces = {}
  /\ lastWorkspaceInfo = EmptyMap
  /\ calls = 0

(***************************************************************************)
(* Property reads.                                                         *)
(***************************************************************************)
\* object[key] on one of the store's own maps
GetKey(map, key) == IF key \in DOMAIN map THEN map[key] ELSE Undefined
\* value[key]: a TypeError when value is undefined
Get(value, key) ==
  IF value.kind \in {"undefined", "TypeError"} THEN TypeError
  ELSE IF key \in DOMAIN value.entries THEN value.entries[key] ELSE Undefined
\* value?.[key]: undefined when value is undefined
OptGet(value, key) == IF value.kind = "undefined" THEN Undefined ELSE Get(value, key)
\* value || undefined
OrUndefined(value) == IF Truthy(value) THEN value ELSE Undefined

(***************************************************************************)
(* Computed helpers.                                                       *)
(***************************************************************************)
workspaceInfoBySlug(workspaceSlug) ==
  IF workspaceSlug = NoId THEN Undefined
  ELSE OrUndefined(GetKey(workspaceUserInfo, workspaceSlug))

\* the lookup with plain property reads in place of the optional chaining
projectPermissionsWithoutOptionalChaining(workspaceSlug, projectId) ==
  IF workspaceSlug = NoId \/ projectId = NoId THEN Undefined
  ELSE OrUndefined(Get(GetKey(projectPermissions, workspaceSlug), projectId))

projectPermissionsByWorkspaceSlugAndProjectId(workspaceSlug, projectId) ==
  IF workspaceSlug = NoId \/ projectId = NoId THEN Undefined
  ELSE OrUndefined(OptGet(GetKey(projectPermissions, workspaceSlug), projectId))

\* the optional callback onPermissionAllowed and what it returns when called
Callbacks == {[supplied |-> FALSE, returns |-> FALSE],
              [supplied |-> TRUE, returns |-> FALSE],
              [supplied |-> TRUE, returns |-> TRUE]}
Returns(b) == [threw |-> FALSE, value |-> b]
Throws == [threw |-> TRUE, value |-> FALSE]

\* the role looked up with the navigation context put before the arguments
currentUserRoleAtPreferringRouter(level, workspaceSlugArg, projectIdArg) ==
  LET workspaceSlug == IF router.workspaceSlug = NoId THEN workspaceSlugArg ELSE router.workspaceSlug
      projectId == IF router.projectId = NoId THEN projectIdArg ELSE router.projectId
      info == IF workspaceSlug # NoId THEN workspaceInfoBySlug(workspaceSlug) ELSE Undefined
      workspaceRole == IF level = WORKSPACE /\ Truthy(info) THEN RoleValue(info.role) ELSE Undefined
  IN  IF level = PROJECT
      THEN IF workspaceSlug # NoId /\ projectId # NoId
           THEN projectPermissionsByWorkspaceSlugAndProjectId(workspaceSlug, projectId)
           ELSE Undefined
      ELSE workspaceRole

\* the role looked up with the membership record of the project as a fallback
\* for a missing role
currentUserRoleAtWithMembershipFallback(level, workspaceSlugArg, projectIdArg) ==
  LET workspaceSlug == IF workspaceSlugArg = NoId THEN router.workspaceSlug ELSE workspaceSlugArg
      projectId == IF projectIdArg = NoId THEN router.projectId ELSE projectIdArg
      info == IF workspaceSlug # NoId THEN workspaceInfoBySlug(workspaceSlug) ELSE Undefined
      workspaceRole == IF level = WORKSPACE /\ Truthy(info) THEN RoleValue(info.role) ELSE Undefined
      projectRole == projectPermissionsByWorkspaceSlugAndProjectId(workspaceSlug, projectId)
      member == OptGet(GetKey(projectUserInfo, workspaceSlug), projectId)
  IN  IF level = PROJECT
      THEN IF workspaceSlug # NoId /\ projectId # NoId
           THEN IF Truthy(projectRole) \/ ~Truthy(member) THEN projectRole
                ELSE RoleValue(member.role)
           ELSE Undefined
      ELSE workspaceRole

\* the role the decision is taken on
currentUserRoleAt(level, workspaceSlugArg, projectIdArg) ==
  LET workspaceSlug == IF workspaceSlugArg = NoId THEN router.workspaceSlug ELSE workspaceSlugArg
      projectId == IF projectIdArg = NoId THEN router.projectId ELSE projectIdArg
      info == IF workspaceSlug # NoId THEN workspaceInfoBySlug(workspaceSlug) ELSE Undefined
      workspaceRole == IF level = WORKSPACE /\ Truthy(info) THEN RoleValue(info.role) ELSE Undefined
  IN  IF level = PROJECT
      THEN IF workspaceSlug # NoId /\ projectId # NoId
           THEN projectPermissionsByWorkspaceSlugAndProjectId(workspaceSlug, projectId)
           ELSE Undefined
      ELSE workspaceRole

\* allowPermissions with the callback never consulted
allowPermissionsIgnoringCallback(allowPermissionsList, level, onPermissionAllowed, workspaceSlugArg, projectIdArg) ==
  LET currentUserRole == currentUserRoleAt(level, workspaceSlugArg, projectIdArg)
  IN  IF currentUserRole.kind = "TypeError" THEN Throws
      ELSE Returns(Truthy(currentUserRole) /\ currentUserRole.role \in allowPermissionsList)

allowPermissions(allowPermissionsList, level, onPermissionAllowed, workspaceSlugArg, projectIdArg) ==
  LET currentUserRole == currentUserRoleAt(level, workspaceSlugArg, projectIdArg)
  IN  IF currentUserRole.kind = "TypeError" THEN Throws
      ELSE IF Truthy(currentUserRole) /\ currentUserRole.role \in allowPermissionsList
           THEN IF onPermissionAllowed.supplied
                THEN Returns(onPermissionAllowed.returns)
                ELSE Returns(TRUE)
           ELSE Returns(FALSE)

(***************************************************************************)
(* The two halves of an asynchronous action.                               *)
(***************************************************************************)
Pending(request) == BagIn(request, inflight)

\* the action is called and runs up to its await of the remote service
Call(request) ==
  /\ calls < MaxCalls
  /\ BagCardinality(inflight) < MaxInFlight
  /\ inflight' = inflight (+) SetToBag({request})
  /\ calls' = calls + 1
  /\ UNCHANGED <<workspaceUserInfo, projectUserInfo, projectPermissions, router, settled,
                 leftWorkspaces, lastWorkspaceInfo>>
  /\ UNCHANGED viewVars

\* the action's promise is settled and its call is no longer in flight
Settle(request, remote, response, outcome, value) ==
  /\ inflight' = inflight (-) SetToBag({request})
  /\ settled' = [op |-> request.op, workspaceSlug |-> request.workspaceSlug,
                 projectId |-> request.projectId, remote |-> remote,
                 response |-> response, outcome |-> outcome, value |-> value,
                 before |-> maps, alongside |-> inflight (-) SetToBag({request}),
                 raced |-> IF /\ settled.remote = "fulfilled"
                              /\ settled.workspaceSlug = request.workspaceSlug
                              /\ BagIn(request, settled.alongside)
                           THEN [op |-> settled.op, projectId |-> settled.projectId]
                           ELSE NoRace]
  /\ leftWorkspaces' = IF request.op = "leaveWorkspace" /\ outcome = "returned"
                       THEN leftWorkspaces \cup {request.workspaceSlug}
                       ELSE leftWorkspaces
  /\ lastWorkspaceInfo' =
       IF request.op = "fetchUserWorkspaceInfo" /\ remote = "fulfilled" /\ Truthy(response)
       THEN Put(lastWorkspaceInfo, request.workspaceSlug, response)
       ELSE IF request.op = "leaveWorkspace" /\ remote = "fulfilled"
            THEN Del(lastWorkspaceInfo, request.workspaceSlug)
            ELSE lastWorkspaceInfo
  /\ UNCHANGED <<router, calls>>
  /\ UNCHANGED viewVars

\* return response
ReturnResponse(request, response) == Settle(request, "fulfilled", response, "returned", response)
\* a catch block that logs the error and does not throw it again
CatchAndSwallow(request) ==
  /\ Settle(request, "rejected", Undefined, "returned", Undefined)
  /\ UNCHANGED <<workspaceUserInfo, projectUserInfo, projectPermissions>>

\* catch (error) { console.error(...); throw error; }
CatchAndRethrow(request) ==
  /\ Settle(request, "rejected", Undefined, "threw", Undefined)
  /\ UNCHANGED <<workspaceUserInfo, projectUserInfo, projectPermissions>>

(***************************************************************************)
(* fetchUserWorkspaceInfo                                                  *)
(***************************************************************************)
fetchUserWorkspaceInfo(workspaceSlug) ==
  Call(Request("fetchUserWorkspaceInfo", workspaceSlug, NoId))

\* fetchUserWorkspaceInfo keeping the record it cached first
fetchUserWorkspaceInfoCommitKeepingFirst(workspaceSlug, response) ==
  /\ workspaceUserInfo' = IF Truthy(response) /\ workspaceSlug \notin DOMAIN workspaceUserInfo
                          THEN lodashSet(workspaceUserInfo, <<workspaceSlug>>, response)
                          ELSE workspaceUserInfo
  /\ UNCHANGED <<projectUserInfo, projectPermissions>>

\* fetchUserWorkspaceInfo with a sequence guard: a response is dropped when
\* another continuation has run since the call was made
fetchUserWorkspaceInfoCommitFirstResponseWins(workspaceSlug, response) ==
  /\ workspaceUserInfo' =
       IF /\ Truthy(response)
          /\ ~BagIn(Request("fetchUserWorkspaceInfo", workspaceSlug, NoId), settled.alongside)
       THEN lodashSet(workspaceUserInfo, <<workspaceSlug>>, response)
       ELSE workspaceUserInfo
  /\ UNCHANGED <<projectUserInfo, projectPermissions>>

fetchUserWorkspaceInfoCommit(workspaceSlug, response) ==
  /\ workspaceUserInfo' = IF Truthy(response)
                          THEN lodashSet(workspaceUserInfo, <<workspaceSlug>>, response)
                          ELSE workspaceUserInfo
  /\ UNCHANGED <<projectUserInfo, projectPermissions>>

fetchUserWorkspaceInfoFulfilled(workspaceSlug, response) ==
  LET request == Request("fetchUserWorkspaceInfo", workspaceSlug, NoId)
  IN  /\ Pending(request)
      /\ fetchUserWorkspaceInfoCommit(workspaceSlug, response)
      /\ ReturnResponse(request, response)

fetchUserWorkspaceInfoRejected(workspaceSlug) ==
  LET request == Request("fetchUserWorkspaceInfo", workspaceSlug, NoId)
  IN  Pending(request) /\ CatchAndRethrow(request)

(***************************************************************************)
(* leaveWorkspace                                                          *)
(***************************************************************************)
leaveWorkspace(workspaceSlug) ==
  Call(Request("leaveWorkspace", workspaceSlug, NoId))

\* leaveWorkspace forgetting the role index
leaveWorkspaceCommitKeepingPermissions(workspaceSlug) ==
  /\ workspaceUserInfo' = lodashUnset(workspaceUserInfo, <<workspaceSlug>>)
  /\ projectUserInfo' = lodashUnset(projectUserInfo, <<workspaceSlug>>)
  /\ UNCHANGED projectPermissions

\* leaveWorkspace forgetting the workspace membership
leaveWorkspaceCommitKeepingWorkspaceInfo(workspaceSlug) ==
  /\ projectUserInfo' = lodashUnset(projectUserInfo, <<workspaceSlug>>)
  /\ projectPermissions' = lodashUnset(projectPermissions, <<workspaceSlug>>)
  /\ UNCHANGED workspaceUserInfo

\* leaveWorkspace emptying the three maps
leaveWorkspaceCommitClearingAll(workspaceSlug) ==
  /\ workspaceUserInfo' = EmptyMap
  /\ projectUserInfo' = EmptyMap
  /\ projectPermissions' = EmptyMap

leaveWorkspaceCommit(workspaceSlug) ==
  /\ workspaceUserInfo' = lodashUnset(workspaceUserInfo, <<workspaceSlug>>)
  /\ projectUserInfo' = lodashUnset(projectUserInfo, <<workspaceSlug>>)
  /\ projectPermissions' = lodashUnset(projectPermissions, <<workspaceSlug>>)

leaveWorkspaceFulfilled(workspaceSlug) ==
  LET request == Request("leaveWorkspace", workspaceSlug, NoId)
  IN  /\ Pending(request)
      /\ leaveWorkspaceCommit(workspaceSlug)
      /\ ReturnResponse(request, Undefined)

leaveWorkspaceRejected(workspaceSlug) ==
  LET request == Request("leaveWorkspace", workspaceSlug, NoId)
  IN  Pending(request) /\ CatchAndRethrow(request)

(***************************************************************************)
(* fetchUserProjectInfo                                                    *)
(***************************************************************************)
fetchUserProjectInfo(workspaceSlug, projectId) ==
  Call(Request("fetchUserProjectInfo", workspaceSlug, projectId))

\* fetchUserProjectInfo writing the membership record only
fetchUserProjectInfoCommitWithoutRole(workspaceSlug, projectId, response) ==
  /\ projectUserInfo' = IF Truthy(response)
                        THEN lodashSet(projectUserInfo, <<workspaceSlug, projectId>>, response)
                        ELSE projectUserInfo
  /\ UNCHANGED <<workspaceUserInfo, projectPermissions>>

\* fetchUserProjectInfo dropping the response for a workspace the user has left
fetchUserProjectInfoCommitUnlessLeft(workspaceSlug, projectId, response) ==
  /\ projectUserInfo' = IF Truthy(response) /\ workspaceSlug \notin leftWorkspaces
                        THEN lodashSet(projectUserInfo, <<workspaceSlug, projectId>>, response)
                        ELSE projectUserInfo
  /\ projectPermissions' = IF Truthy(response) /\ workspaceSlug \notin leftWorkspaces
                           THEN lodashSet(projectPermissions, <<workspaceSlug, projectId>>,
                                          RoleValue(response.role))
                           ELSE projectPermissions
  /\ UNCHANGED workspaceUserInfo

fetchUserProjectInfoCommit(workspaceSlug, projectId, response) ==
  /\ projectUserInfo' = IF Truthy(response)
                        THEN lodashSet(projectUserInfo, <<workspaceSlug, projectId>>, response)
                        ELSE projectUserInfo
  /\ projectPermissions' = IF Truthy(response)
                           THEN lodashSet(projectPermissions, <<workspaceSlug, projectId>>,
                                          RoleValue(response.role))
                           ELSE projectPermissions
  /\ UNCHANGED workspaceUserInfo

fetchUserProjectInfoFulfilled(workspaceSlug, projectId, response) ==
  LET request == Request("fetchUserProjectInfo", workspaceSlug, projectId)
  IN  /\ Pending(request)
      /\ fetchUserProjectInfoCommit(workspaceSlug, projectId, response)
      /\ ReturnResponse(request, response)

fetchUserProjectInfoRejected(workspaceSlug, projectId) ==
  LET request == Request("fetchUserProjectInfo", workspaceSlug, projectId)
  IN  Pending(request) /\ CatchAndRethrow(request)

(***************************************************************************)
(* fetchUserProjectPermissions                                             *)
(***************************************************************************)
fetchUserProjectPermissions(workspaceSlug) ==
  Call(Request("fetchUserProjectPermissions", workspaceSlug, NoId))

\* fetchUserProjectPermissions merging the response into the cached slice
fetchUserProjectPermissionsCommitMerging(workspaceSlug, response) ==
  LET old == GetKey(projectPermissions, workspaceSlug)
      kept == IF isObject(old) THEN old.entries ELSE EmptyMap
      merged == [p \in DOMAIN kept \cup DOMAIN response.entries |->
                   IF p \in DOMAIN response.entries THEN response.entries[p] ELSE kept[p]]
  IN  /\ projectPermissions' = lodashSet(projectPermissions, <<workspaceSlug>>,
                                         IF isObject(response) THEN PlainObject(merged) ELSE old)
      /\ UNCHANGED <<workspaceUserInfo, projectUserInfo>>

\* fetchUserProjectPermissions skipping an empty response, as the other fetches do
fetchUserProjectPermissionsCommitIfResponse(workspaceSlug, response) ==
  /\ projectPermissions' = IF Truthy(response)
                           THEN lodashSet(projectPermissions, <<workspaceSlug>>, response)
                           ELSE projectPermissions
  /\ UNCHANGED <<workspaceUserInfo, projectUserInfo>>

fetchUserProjectPermissionsCommit(workspaceSlug, response) ==
  /\ projectPermissions' = lodashSet(projectPermissions, <<workspaceSlug>>, response)
  /\ UNCHANGED <<workspaceUserInfo, projectUserInfo>>

fetchUserProjectPermissionsFulfilled(workspaceSlug, response) ==
  LET request == Request("fetchUserProjectPermissions", workspaceSlug, NoId)
  IN  /\ Pending(request)
      /\ fetchUserProjectPermissionsCommit(workspaceSlug, response)
      /\ ReturnResponse(request, response)

fetchUserProjectPermissionsRejected(workspaceSlug) ==
  LET request == Request("fetchUserProjectPermissions", workspaceSlug, NoId)
  IN  Pending(request) /\ CatchAndRethrow(request)

(***************************************************************************)
(* joinProject                                                             *)
(***************************************************************************)
joinProject(workspaceSlug, projectId) ==
  Call(Request("joinProject", workspaceSlug, projectId))

\* joinProject caching a membership record next to the role
joinProjectCommitWritingMembership(workspaceSlug, projectId, response) ==
  /\ projectPermissions' = IF Truthy(response)
                           THEN lodashSet(projectPermissions, <<workspaceSlug, projectId>>, response)
                           ELSE projectPermissions
  /\ projectUserInfo' = IF Truthy(response)
                        THEN lodashSet(projectUserInfo, <<workspaceSlug, projectId>>,
                                       MemberRecord(response.role))
                        ELSE projectUserInfo
  /\ UNCHANGED workspaceUserInfo

joinProjectCommit(workspaceSlug, projectId, response) ==
  /\ projectPermissions' = IF Truthy(response)
                           THEN lodashSet(projectPermissions, <<workspaceSlug, projectId>>, response)
                           ELSE projectPermissions
  /\ UNCHANGED <<workspaceUserInfo, projectUserInfo>>

joinProjectFulfilled(workspaceSlug, projectId, response) ==
  LET request == Request("joinProject", workspaceSlug, projectId)
  IN  /\ Pending(request)
      /\ joinProjectCommit(workspaceSlug, projectId, response)
      /\ ReturnResponse(request, response)

joinProjectRejected(workspaceSlug, projectId) ==
  LET request == Request("joinProject", workspaceSlug, projectId)
  IN  Pending(request) /\ CatchAndRethrow(request)

(***************************************************************************)
(* leaveProject                                                            *)
(***************************************************************************)
leaveProject(workspaceSlug, projectId) ==
  Call(Request("leaveProject", workspaceSlug, projectId))

\* leaveProject clearing the membership record as well
leaveProjectCommitClearingMembership(workspaceSlug, projectId) ==
  /\ projectPermissions' = lodashUnset(projectPermissions, <<workspaceSlug, projectId>>)
  /\ projectUserInfo' = lodashUnset(projectUserInfo, <<workspaceSlug, projectId>>)
  /\ UNCHANGED workspaceUserInfo

leaveProjectCommit(workspaceSlug, projectId) ==
  /\ projectPermissions' = lodashUnset(projectPermissions, <<workspaceSlug, projectId>>)
  /\ UNCHANGED <<workspaceUserInfo, projectUserInfo>>

leaveProjectFulfilled(workspaceSlug, projectId) ==
  LET request == Request("leaveProject", workspaceSlug, projectId)
  IN  /\ Pending(request)
      /\ leaveProjectCommit(workspaceSlug, projectId)
      /\ ReturnResponse(request, Undefined)

leaveProjectRejected(workspaceSlug, projectId) ==
  LET request == Request("leaveProject", workspaceSlug, projectId)
  IN  Pending(request) /\ CatchAndRethrow(request)

(***************************************************************************)
(* The navigation context read by allowPermissions.                        *)
(***************************************************************************)
Routes == {[workspaceSlug |-> NoId, projectId |-> NoId]}
          \cup [workspaceSlug : Workspaces, projectId : Projects \cup {NoId}]

Navigate(route) ==
  /\ route # router
  /\ router' = route
  /\ UNCHANGED <<workspaceUserInfo, projectUserInfo, projectPermissions, inflight, settled,
                 leftWorkspaces, lastWorkspaceInfo, calls>>
  /\ UNCHANGED viewVars

Next ==
  \/ \E ws \in Workspaces : fetchUserWorkspaceInfo(ws)
  \/ \E ws \in Workspaces, response \in MemberResponses : fetchUserWorkspaceInfoFulfilled(ws, response)
  \/ \E ws \in Workspaces : fetchUserWorkspaceInfoRejected(ws)
  \/ \E ws \in Workspaces : leaveWorkspace(ws)
  \/ \E ws \in Workspaces : leaveWorkspaceFulfilled(ws)
  \/ \E ws \in Workspaces : leaveWorkspaceRejected(ws)
  \/ \E ws \in Workspaces, p \in Projects : fetchUserProjectInfo(ws, p)
  \/ \E ws \in Workspaces, p \in Projects, response \in MemberResponses :
       fetchUserProjectInfoFulfilled(ws, p, response)
  \/ \E ws \in Workspaces, p \in Projects : fetchUserProjectInfoRejected(ws, p)
  \/ \E ws \in Workspaces : fetchUserProjectPermissions(ws)
  \/ \E ws \in Workspaces, response \in ProjectsRoleResponses :
       fetchUserProjectPermissionsFulfilled(ws, response)
  \/ \E ws \in Workspaces : fetchUserProjectPermissionsRejected(ws)
  \/ \E ws \in Workspaces, p \in Projects : joinProject(ws, p)
  \/ \E ws \in Workspaces, p \in Projects, response \in JoinResponses :
       joinProjectFulfilled(ws, p, response)
  \/ \E ws \in Workspaces, p \in Projects : joinProjectRejected(ws, p)
  \/ \E ws \in Workspaces, p \in Projects : leaveProject(ws, p)
  \/ \E ws \in Workspaces, p \in Projects : leaveProjectFulfilled(ws, p)
  \/ \E ws \in Workspaces, p \in Projects : leaveProjectRejected(ws, p)

\* the store's actions, from the empty cache
Spec == Init /\ [][Next]_vars

(***************************************************************************)
(* The remote service answers every call, with a response or an error, and *)
(* the continuation of the await runs when it does: a step that settles a  *)
(* call cannot stay possible for ever without one being taken.             *)
(***************************************************************************)
Settlement == Next /\ calls' = calls

FairSpec == Spec /\ WF_vars(Settlement)

(***************************************************************************)
(* The computed helpers are functions of the three maps and the router.    *)
(* ReadSpec starts them from the caches the actions can build over         *)
(* Workspaces, Projects and Roles (workspaceUserInfo by                    *)
(* fetchUserWorkspaceInfo, projectUserInfo by fetchUserProjectInfo,        *)
(* projectPermissions by fetchUserProjectPermissions after it) and lets    *)
(* the navigation context change under them.                               *)
(***************************************************************************)
PartialMaps(keys, values) == UNION {[D -> values] : D \in SUBSET keys}

InitCached ==
  /\ ViewUnmounted
  /\ workspaceUserInfo \in PartialMaps(Workspaces, {MemberRecord(r) : r \in Roles})
  /\ projectPermissions \in PartialMaps(Workspaces, ProjectsRoleResponses)
  \* a workspace gets its slice of projectUserInfo together with one of
  \* projectPermissions, and only leaveWorkspace removes either
  /\ projectUserInfo \in
       {EmptyMap,
        [ws \in DOMAIN projectPermissions |->
           PlainObject([p \in Projects |-> MemberRecord(ADMIN)])]}
  /\ router = [workspaceSlug |-> NoId, projectId |-> NoId]
  /\ inflight = EmptyBag
  /\ settled = NotSettled
  /\ leftWorkspaces = {}
  /\ lastWorkspaceInfo = workspaceUserInfo
  /\ calls = 0

NextRead == \E route \in Routes : Navigate(route)

ReadSpec == InitCached /\ [][NextRead]_vars

(***************************************************************************)
(* The all-issues spreadsheet view (src/unnamed/part_000,                  *)
(* AllIssueLayoutRoot).  It gives useSWR two fetchers: one fetches the     *)
(* global views of the workspace, the other, the issues loader, awaits     *)
(* fetchAllGlobalViews, fetchFilters and fetchIssues in turn and then      *)
(* calls routerFilterParams.  A fetcher runs up to an await in one step    *)
(* and is resumed, or made to throw, when the awaited call settles.  The   *)
(* stores behind fetchAllGlobalViews, fetchFilters, fetchIssues and        *)
(* updateFilters are outside the view: a run keeps the calls it has made   *)
(* and how each awaited one ended.                                         *)
(***************************************************************************)
\* runs of the two fetchers started while the view is mounted
MaxRuns == 2
\* globalViewId: a static view, and a view defined in the workspace
GlobalViews == {"all-issues", "view1"}
StaticViews == {"all-issues", "assigned", "created", "subscribed"}
\* router.query before and after the router is ready, in the workspace the
\* view is opened in (the calls of a run differ by workspace in their
\* arguments only)
Queries == [workspaceSlug : {"ws1", NoId}, globalViewId : GlobalViews \cup {NoId},
            routeFilters : BOOLEAN]

Event(what, fn) == [what |-> what, fn |-> fn]
AwaitedCalls == {"fetchAllGlobalViews", "fetchFilters", "fetchIssues"}
\* the call a run is awaiting, "none" when it has ended
Awaited(run) ==
  IF run.trace = <<>> THEN "none"
  ELSE LET last == run.trace[Len(run.trace)]
       IN  IF last.what = "called" /\ last.fn \in AwaitedCalls THEN last.fn ELSE "none"

\* routerFilterParams: for a static view it hands the other keys of the
\* query, when there are any, to updateFilters
routerFilterParams(run) ==
  IF /\ run.workspaceSlug # NoId
     /\ run.globalViewId # NoId
     /\ run.globalViewId \in StaticViews
     /\ run.routeFilters
  THEN <<Event("called", "routerFilterParams"), Event("called", "updateFilters")>>
  ELSE <<Event("called", "routerFilterParams")>>

\* the issues loader with fetchFilters not awaited
AfterAwaitWithoutAwaitingFilters(run, fn) ==
  CASE fn = "fetchAllGlobalViews" ->
         <<Event("called", "fetchFilters"), Event("called", "fetchIssues")>>
    [] fn = "fetchFilters" -> <<>>
    [] fn = "fetchIssues" -> routerFilterParams(run)

\* the issues loader from the await of fn that has been fulfilled up to its
\* next await, or to its end
AfterAwait(run, fn) ==
  CASE fn = "fetchAllGlobalViews" -> <<Event("called", "fetchFilters")>>
    [] fn = "fetchFilters" -> <<Event("called", "fetchIssues")>>
    [] fn = "fetchIssues" -> routerFilterParams(run)

\* the issues loader from its call up to its first await
IssuesFetcher(q) ==
  [hook |-> "issues", workspaceSlug |-> q.workspaceSlug, globalViewId |-> q.globalViewId,
   routeFilters |-> q.routeFilters,
   trace |-> IF q.workspaceSlug # NoId /\ q.globalViewId # NoId
             THEN <<Event("called", "fetchAllGlobalViews")>>
             ELSE <<>>]

\* the fetcher of the global views, which reads workspaceSlug only
GlobalViewsFetcher(q) ==
  [hook |-> "globalViews", workspaceSlug |-> q.workspaceSlug, globalViewId |-> NoId,
   routeFilters |-> FALSE,
   trace |-> IF q.workspaceSlug # NoId
             THEN <<Event("called", "fetchAllGlobalViews")>>
             ELSE <<>>]

\* router.query changes
NavigateQuery(q) ==
  /\ q # query
  /\ query' = q
  /\ UNCHANGED <<loaderRuns, currentWorkspaceAllProjectsRole, quickActions>>
  /\ UNCHANGED storeVars

\* useSWR calls the fetcher of a hook whose key is not null
useSWRGlobalViews ==
  /\ Len(loaderRuns) < MaxRuns
  /\ query.workspaceSlug # NoId
  /\ loaderRuns' = Append(loaderRuns, GlobalViewsFetcher(query))
  /\ UNCHANGED <<query, currentWorkspaceAllProjectsRole, quickActions>>
  /\ UNCHANGED storeVars

useSWRIssues ==
  /\ Len(loaderRuns) < MaxRuns
  /\ query.workspaceSlug # NoId /\ query.globalViewId # NoId
  /\ loaderRuns' = Append(loaderRuns, IssuesFetcher(query))
  /\ UNCHANGED <<query, currentWorkspaceAllProjectsRole, quickActions>>
  /\ UNCHANGED storeVars

\* the awaited call of run i is fulfilled and the fetcher goes on
FetcherResumed(i) ==
  LET run == loaderRuns[i]
      fn == Awaited(run)
  IN  /\ fn # "none"
      /\ loaderRuns' = [loaderRuns EXCEPT ![i].trace =
                          @ \o <<Event("fulfilled", fn)>>
                            \o (IF run.hook = "issues" THEN AfterAwait(run, fn) ELSE <<>>)]
      /\ UNCHANGED <<query, currentWorkspaceAllProjectsRole, quickActions>>
      /\ UNCHANGED storeVars

\* the awaited call of run i is rejected: the await throws and the fetcher ends
FetcherThrown(i) ==
  LET run == loaderRuns[i]
      fn == Awaited(run)
  IN  /\ fn # "none"
      /\ loaderRuns' = [loaderRuns EXCEPT ![i].trace = @ \o <<Event("rejected", fn)>>]
      /\ UNCHANGED <<query, currentWorkspaceAllProjectsRole, quickActions>>
      /\ UNCHANGED storeVars

NextLoader ==
  \/ \E q \in Queries : NavigateQuery(q)
  \/ useSWRGlobalViews
  \/ useSWRIssues
  \/ \E i \in DOMAIN loaderRuns : FetcherResumed(i)
  \/ \E i \in DOMAIN loaderRuns : FetcherThrown(i)

\* the two fetchers of the view, from its mount
LoaderSpec == Init /\ [][NextLoader]_vars

(***************************************************************************)
(* Edit gating in the view: canEditProperties reads the project roles of   *)
(* the current workspace from the membership store, and renderQuickActions *)
(* renders the quick actions of an issue read-only when it says no.        *)
(***************************************************************************)
\* the issues of the list: an issue may have no project_id
Issues == [id : {"i1", "i2"}, project_id : Projects \cup {NoId}]

\* canEditProperties with any known role accepted
canEditPropertiesWithAnyRole(projectId) ==
  IF projectId = NoId THEN FALSE
  ELSE LET currentProjectRole ==
             IF Truthy(currentWorkspaceAllProjectsRole)
             THEN Get(currentWorkspaceAllProjectsRole, projectId)
             ELSE currentWorkspaceAllProjectsRole
       IN  Truthy(currentProjectRole)

canEditProperties(projectId) ==
  IF projectId = NoId THEN FALSE
  ELSE LET currentProjectRole ==
             IF Truthy(currentWorkspaceAllProjectsRole)
             THEN Get(currentWorkspaceAllProjectsRole, projectId)
             ELSE currentWorkspaceAllProjectsRole
       IN  Truthy(currentProjectRole) /\ currentProjectRole.role >= MEMBER

renderQuickActions(issue) ==
  /\ quickActions' = [issue |-> issue, readOnly |-> ~canEditProperties(issue.project_id)]
  /\ UNCHANGED <<query, loaderRuns, currentWorkspaceAllProjectsRole>>
  /\ UNCHANGED storeVars

\* the membership store gets the project roles of the current workspace, and
\* the observer renders the view again
MembershipChanged(projectsRole) ==
  /\ projectsRole # currentWorkspaceAllProjectsRole
  /\ currentWorkspaceAllProjectsRole' = projectsRole
  /\ quickActions' = NotRendered
  /\ UNCHANGED <<query, loaderRuns>>
  /\ UNCHANGED storeVars

NextEdit ==
  \/ \E projectsRole \in ProjectsRoleResponses : MembershipChanged(projectsRole)
  \/ \E issue \in Issues : renderQuickActions(issue)

\* the rendering of the quick actions, from the mount of the view
EditSpec == Init /\ [][NextEdit]_vars

TypeOK ==
  /\ DOMAIN workspaceUserInfo \subseteq Workspaces
  /\ DOMAIN projectUserInfo \subseteq Workspaces
  /\ DOMAIN projectPermissions \subseteq Workspaces
  /\ DOMAIN projectUserInfo \subseteq DOMAIN projectPermissions
  /\ \A ws \in DOMAIN projectUserInfo : DOMAIN projectUserInfo[ws].entries # {}
  /\ router \in Routes
  /\ leftWorkspaces \subseteq Workspaces
  /\ BagCardinality(inflight) <= MaxInFlight
  /\ calls <= MaxCalls
  /\ DOMAIN lastWorkspaceInfo \subseteq Workspaces
  /\ query \in Queries \cup {NoQuery}
  /\ Len(loaderRuns) <= MaxRuns
  /\ DOMAIN currentWorkspaceAllProjectsRole.entries \subseteq Projects
  /\ quickActions.readOnly \in BOOLEAN

(***************************************************************************)
(* Claims.                                                                 *)
(***************************************************************************)
\* the arguments allowPermissions is called with
AllowedRoleSets == SUBSET Roles
SlugArgs == Workspaces \cup {NoId}
ProjectArgs == Projects \cup {NoId}

\* what a cache holds, read key by key: the workspace record in a
\* workspaceUserInfo, the project record in a projectUserInfo, the project
\* role in a projectPermissions (Undefined: no entry)
InfoAt(info, ws) == IF ws \in DOMAIN info THEN info[ws] ELSE Undefined
MemberAt(info, ws, p) ==
  IF ws \in DOMAIN info /\ p \in DOMAIN info[ws].entries
  THEN info[ws].entries[p] ELSE Undefined
RoleAt(permissions, ws, p) ==
  IF /\ ws \in DOMAIN permissions
     /\ permissions[ws].kind = "object"
     /\ p \in DOMAIN permissions[ws].entries
  THEN permissions[ws].entries[p] ELSE Undefined
KnownRole(level, ws, p) ==
  IF level = WORKSPACE
  THEN InfoAt(workspaceUserInfo, ws).role
  ELSE RoleAt(projectPermissions, ws, p).role
\* the promise settled last is that of op(ws, p), and the remote call was fulfilled
Fulfilled(op, ws, p) ==
  /\ settled.op = op /\ settled.workspaceSlug = ws /\ settled.projectId = p
  /\ settled.remote = "fulfilled"
\* the three maps as the continuation settled last found them
BeforeWorkspaceUserInfo == settled.before[1]
BeforeProjectUserInfo == settled.before[2]
BeforeProjectPermissions == settled.before[3]
\* the scope a call is about: its own argument, else the router's
ScopeOf(arg, current) == IF arg = NoId THEN current ELSE arg

\* C1: allowPermissions returns false when no role is known at the requested
\* level, false when the known role is not among the allowed roles, and
\* otherwise what the callback returns if one is supplied, else true.
C1_DecisionRule ==
  \A allowed \in AllowedRoleSets, level \in Levels, cb \in Callbacks,
     wsArg \in SlugArgs, pArg \in ProjectArgs :
    LET role == KnownRole(level, ScopeOf(wsArg, router.workspaceSlug),
                          ScopeOf(pArg, router.projectId))
        expected == IF role = 0 THEN FALSE
                    ELSE IF role \notin allowed THEN FALSE
                    ELSE IF cb.supplied THEN cb.returns ELSE TRUE
    IN  allowPermissions(allowed, level, cb, wsArg, pArg) = Returns(expected)

\* a MEMBER of the router's workspace: allowed with [ADMIN, MEMBER], refused
\* with [ADMIN], and refused when the callback says so
C1_Witness ==
  \E ws \in Workspaces :
    /\ KnownRole(WORKSPACE, ws, NoId) = MEMBER
    /\ router.workspaceSlug = ws
    /\ allowPermissions({ADMIN, MEMBER}, WORKSPACE, [supplied |-> FALSE, returns |-> FALSE], NoId, NoId)
         = Returns(TRUE)
    /\ allowPermissions({ADMIN, MEMBER}, WORKSPACE, [supplied |-> FALSE, returns |-> FALSE], ws, NoId)
         = Returns(TRUE)
    /\ allowPermissions({ADMIN}, WORKSPACE, [supplied |-> FALSE, returns |-> FALSE], ws, NoId)
         = Returns(FALSE)
    /\ allowPermissions({ADMIN, MEMBER}, WORKSPACE, [supplied |-> TRUE, returns |-> FALSE], ws, NoId)
         = Returns(FALSE)

\* C2: a PROJECT level check for a pair with no entry in projectPermissions
\* (no slice for the workspace, or no role for the project in it) returns false
\* for every set of allowed roles, and neither it nor the lookup raises.
C2_UnfetchedProjectRefused ==
  \A wsArg \in SlugArgs, pArg \in ProjectArgs :
    LET ws == ScopeOf(wsArg, router.workspaceSlug)
        p == ScopeOf(pArg, router.projectId)
    IN  RoleAt(projectPermissions, ws, p) = Undefined =>
          /\ projectPermissionsByWorkspaceSlugAndProjectId(ws, p) = Undefined
          /\ \A allowed \in AllowedRoleSets, cb \in Callbacks :
               allowPermissions(allowed, PROJECT, cb, wsArg, pArg) = Returns(FALSE)

\* one workspace has a role for one project only, the other workspace, where
\* the router is, has no slice at all: both kinds of missing pair are refused
C2_Witness ==
  \E ws \in Workspaces, other \in Workspaces, p \in Projects, q \in Projects :
    /\ RoleAt(projectPermissions, ws, p) # Undefined
    /\ q # p /\ RoleAt(projectPermissions, ws, q) = Undefined
    /\ other \notin DOMAIN projectPermissions
    /\ allowPermissions(Roles, PROJECT, [supplied |-> FALSE, returns |-> FALSE], ws, q)
         = Returns(FALSE)
    /\ allowPermissions(Roles, PROJECT, [supplied |-> FALSE, returns |-> FALSE], other, p)
         = Returns(FALSE)
    /\ router = [workspaceSlug |-> other, projectId |-> p]
    /\ allowPermissions(Roles, PROJECT, [supplied |-> FALSE, returns |-> FALSE], NoId, NoId)
         = Returns(FALSE)

\* both lookups of a workspace return undefined
LookupsUndefined(ws) ==
  /\ workspaceInfoBySlug(ws) = Undefined
  /\ \A p \in Projects : projectPermissionsByWorkspaceSlugAndProjectId(ws, p) = Undefined
\* the continuation settled last wrote a response for the workspace
WriteCommitted(ws) ==
  /\ settled.workspaceSlug = ws
  /\ settled.remote = "fulfilled"
  /\ settled.op \in {"fetchUserWorkspaceInfo", "fetchUserProjectInfo",
                     "fetchUserProjectPermissions", "joinProject"}

\* C3 as stated: once leaveWorkspace(ws) has succeeded, the lookups of ws
\* return undefined ever after.
C3_UndefinedEverAfterLeave ==
  \A ws \in leftWorkspaces : LookupsUndefined(ws)

\* C3 as amended: right after leaveWorkspace(ws) succeeds the lookups of ws
\* return undefined, and they go on returning undefined until the response of
\* a fetch or join for ws is committed.
C3_UndefinedUntilNextWrite ==
  \A ws \in Workspaces :
    /\ Fulfilled("leaveWorkspace", ws, NoId) => LookupsUndefined(ws)
    /\ ( /\ ws \in leftWorkspaces
         /\ InfoAt(BeforeWorkspaceUserInfo, ws) = Undefined
         /\ \A p \in Projects : RoleAt(BeforeProjectPermissions, ws, p) = Undefined
         /\ ~WriteCommitted(ws) )
       => LookupsUndefined(ws)

\* a workspace whose record was cached has been left
C3_Witness ==
  \E ws \in Workspaces :
    /\ Fulfilled("leaveWorkspace", ws, NoId)
    /\ InfoAt(BeforeWorkspaceUserInfo, ws) # Undefined
    /\ LookupsUndefined(ws)

\* C4: a successful leaveWorkspace(ws) leaves ws in none of the three maps, and
\* no continuation removes ws from one of the maps and leaves it in another.
C4_LeaveWorkspaceAtomic ==
  \A ws \in Workspaces :
    LET removed == \/ ws \in DOMAIN BeforeWorkspaceUserInfo \ DOMAIN workspaceUserInfo
                   \/ ws \in DOMAIN BeforeProjectUserInfo \ DOMAIN projectUserInfo
                   \/ ws \in DOMAIN BeforeProjectPermissions \ DOMAIN projectPermissions
    IN  (removed \/ Fulfilled("leaveWorkspace", ws, NoId)) =>
          /\ ws \notin DOMAIN workspaceUserInfo
          /\ ws \notin DOMAIN projectUserInfo
          /\ ws \notin DOMAIN projectPermissions

\* a workspace present in projectUserInfo and projectPermissions has been left
C4_Witness ==
  \E ws \in Workspaces :
    /\ Fulfilled("leaveWorkspace", ws, NoId)
    /\ ws \in DOMAIN BeforeProjectUserInfo
    /\ ws \in DOMAIN BeforeProjectPermissions
    /\ ws \notin DOMAIN projectUserInfo \cup DOMAIN projectPermissions

\* C5: an action writes nothing before its remote call settles, and when the
\* remote call is rejected its continuation writes nothing either and the
\* action's promise is rejected, never resolved.
C5_FailureSemantics ==
  [][ /\ calls' # calls => maps' = maps
      /\ (inflight' # inflight /\ calls' = calls /\ settled'.remote = "rejected")
           => (maps' = maps /\ settled'.outcome = "threw") ]_vars

\* a rejected fetchUserProjectInfo with a record of the project in the cache
C5_Witness ==
  \E ws \in Workspaces, p \in Projects :
    /\ settled.op = "fetchUserProjectInfo"
    /\ settled.workspaceSlug = ws /\ settled.projectId = p
    /\ settled.remote = "rejected" /\ settled.outcome = "threw"
    /\ MemberAt(projectUserInfo, ws, p) # Undefined
    /\ maps = settled.before

\* C6: right after a successful fetchUserProjectPermissions(ws) the lookup of
\* (ws, p) returns the role the response gives p, and undefined for every p
\* the response does not name.
C6_BulkOverwrite ==
  \A ws \in Workspaces :
    Fulfilled("fetchUserProjectPermissions", ws, NoId) =>
      \A p \in Projects :
        projectPermissionsByWorkspaceSlugAndProjectId(ws, p)
          = IF p \in DOMAIN settled.response.entries
            THEN settled.response.entries[p] ELSE Undefined

\* the response names one project and not the other, whose role
\* fetchUserProjectInfo had written
C6_Witness ==
  \E ws \in Workspaces, p \in Projects, q \in Projects :
    /\ Fulfilled("fetchUserProjectPermissions", ws, NoId)
    /\ p \in DOMAIN settled.response.entries
    /\ q \notin DOMAIN settled.response.entries
    /\ MemberAt(projectUserInfo, ws, q) # Undefined
    /\ RoleAt(BeforeProjectPermissions, ws, q) # Undefined
    /\ projectPermissionsByWorkspaceSlugAndProjectId(ws, q) = Undefined

\* C7: with no remote call in flight, a project that has both a membership
\* record and a role in the index has the same role in both.
C7_RoleIndexConsistent ==
  inflight = EmptyBag =>
    \A ws \in Workspaces, p \in Projects :
      (MemberAt(projectUserInfo, ws, p) # Undefined /\ RoleAt(projectPermissions, ws, p) # Undefined)
        => RoleAt(projectPermissions, ws, p).role = MemberAt(projectUserInfo, ws, p).role

\* C8: a successful fetchUserProjectInfo(ws, p) with a record leaves the
\* record in projectUserInfo and its role in projectPermissions at (ws, p);
\* with an empty response it leaves both maps as they were.
C8_ProjectInfoWritesBoth ==
  \A ws \in Workspaces, p \in Projects :
    Fulfilled("fetchUserProjectInfo", ws, p) =>
      IF settled.response # Undefined
      THEN /\ MemberAt(projectUserInfo, ws, p) = settled.response
           /\ RoleAt(projectPermissions, ws, p) = RoleValue(settled.response.role)
      ELSE /\ projectUserInfo = BeforeProjectUserInfo
           /\ projectPermissions = BeforeProjectPermissions

\* the record replaces a different role in the index
C8_Witness ==
  \E ws \in Workspaces, p \in Projects :
    /\ Fulfilled("fetchUserProjectInfo", ws, p)
    /\ settled.response = MemberRecord(ADMIN)
    /\ RoleAt(BeforeProjectPermissions, ws, p) = RoleValue(MEMBER)
    /\ RoleAt(projectPermissions, ws, p) = RoleValue(ADMIN)

\* C9: after a successful leaveProject(ws, p) neither projectUserInfo nor
\* projectPermissions holds an entry for (ws, p).
C9_LeaveProjectClearsBoth ==
  \A ws \in Workspaces, p \in Projects :
    Fulfilled("leaveProject", ws, p) =>
      /\ RoleAt(projectPermissions, ws, p) = Undefined
      /\ MemberAt(projectUserInfo, ws, p) = Undefined

\* C10: a successful leaveProject(ws, p) removes the role of (ws, p) and
\* changes nothing else: workspaceUserInfo, projectUserInfo, the slices of the
\* other workspaces and the roles of the other projects of ws are as before.
C10_LeaveProjectFrame ==
  \A ws \in Workspaces, p \in Projects :
    Fulfilled("leaveProject", ws, p) =>
      /\ RoleAt(projectPermissions, ws, p) = Undefined
      /\ workspaceUserInfo = BeforeWorkspaceUserInfo
      /\ projectUserInfo = BeforeProjectUserInfo
      /\ DOMAIN projectPermissions = DOMAIN BeforeProjectPermissions
      /\ \A other \in DOMAIN projectPermissions \ {ws} :
           projectPermissions[other] = BeforeProjectPermissions[other]
      /\ GetKey(projectPermissions, ws).kind = GetKey(BeforeProjectPermissions, ws).kind
      /\ \A q \in Projects \ {p} :
           RoleAt(projectPermissions, ws, q) = RoleAt(BeforeProjectPermissions, ws, q)

\* the role of a project with a membership record is removed, the record stays
C10_Witness ==
  \E ws \in Workspaces, p \in Projects :
    /\ Fulfilled("leaveProject", ws, p)
    /\ RoleAt(BeforeProjectPermissions, ws, p) # Undefined
    /\ RoleAt(projectPermissions, ws, p) = Undefined
    /\ MemberAt(projectUserInfo, ws, p) # Undefined

\* C11: workspaceInfoBySlug(ws) is undefined while no fetchUserWorkspaceInfo(ws)
\* has committed a record, and again once a leaveWorkspace(ws) has committed
\* after the last one; otherwise it is the record of the
\* fetchUserWorkspaceInfo(ws) committed last, so a fetch that resolves with
\* role R leaves workspaceInfoBySlug(ws).role = R.
C11_WorkspaceInfoReflectsCache ==
  /\ workspaceInfoBySlug(NoId) = Undefined
  /\ \A ws \in Workspaces :
       /\ workspaceInfoBySlug(ws) = InfoAt(lastWorkspaceInfo, ws)
       /\ (Fulfilled("fetchUserWorkspaceInfo", ws, NoId) /\ settled.value # Undefined)
            => workspaceInfoBySlug(ws).role = settled.value.role

\* a second fetch of a workspace has replaced a GUEST record by an ADMIN one
C11_Witness ==
  \E ws \in Workspaces :
    /\ Fulfilled("fetchUserWorkspaceInfo", ws, NoId)
    /\ settled.value = MemberRecord(ADMIN)
    /\ InfoAt(BeforeWorkspaceUserInfo, ws) = MemberRecord(GUEST)
    /\ workspaceInfoBySlug(ws).role = ADMIN

\* the entries of a map other than those of workspace ws are as the
\* continuation settled last found them
OtherWorkspacesUnchanged(map, before, ws) ==
  \A other \in Workspaces \ {ws} :
    /\ other \in DOMAIN map <=> other \in DOMAIN before
    /\ InfoAt(map, other) = InfoAt(before, other)

\* C12: a successful joinProject(ws, p) that returns a role leaves that role
\* in projectPermissions at (ws, p), where the lookup then finds it, and leaves
\* workspaceUserInfo, projectUserInfo and every other entry of
\* projectPermissions as they were.
C12_JoinProjectWritesRole ==
  \A ws \in Workspaces, p \in Projects :
    (Fulfilled("joinProject", ws, p) /\ settled.response # Undefined) =>
      /\ RoleAt(projectPermissions, ws, p) = settled.response
      /\ projectPermissionsByWorkspaceSlugAndProjectId(ws, p) = settled.response
      /\ workspaceUserInfo = BeforeWorkspaceUserInfo
      /\ projectUserInfo = BeforeProjectUserInfo
      /\ OtherWorkspacesUnchanged(projectPermissions, BeforeProjectPermissions, ws)
      /\ \A q \in Projects \ {p} :
           RoleAt(projectPermissions, ws, q) = RoleAt(BeforeProjectPermissions, ws, q)

\* the user joins a project of a workspace in which the role of another
\* project is cached
C12_Witness ==
  \E ws \in Workspaces, p \in Projects, q \in Projects :
    /\ q # p
    /\ Fulfilled("joinProject", ws, p)
    /\ settled.response = RoleValue(MEMBER)
    /\ RoleAt(BeforeProjectPermissions, ws, p) = Undefined
    /\ RoleAt(BeforeProjectPermissions, ws, q) # Undefined
    /\ projectPermissionsByWorkspaceSlugAndProjectId(ws, p) = RoleValue(MEMBER)
    /\ projectPermissionsByWorkspaceSlugAndProjectId(ws, q) = RoleAt(BeforeProjectPermissions, ws, q)

\* the fetch actions: they cache what the remote service returns
FetchOps == {"fetchUserWorkspaceInfo", "fetchUserProjectInfo", "fetchUserProjectPermissions"}
\* the response settled last is that of a fetch, and it arrived after the
\* response of a fetch that writes a key it writes too, the two calls having
\* been in flight together
RacedForSameKey ==
  /\ settled.remote = "fulfilled"
  /\ settled.op \in FetchOps
  /\ settled.raced.op \in FetchOps
  /\ \/ settled.op = settled.raced.op /\ settled.projectId = settled.raced.projectId
     \/ {settled.op, settled.raced.op} = {"fetchUserProjectInfo", "fetchUserProjectPermissions"}
\* the record, and the role, that the response settled last carries are the
\* cached ones (an empty response carries neither)
CachedRecordIsLast ==
  CASE settled.op = "fetchUserWorkspaceInfo" ->
         InfoAt(workspaceUserInfo, settled.workspaceSlug) = settled.response
    [] settled.op = "fetchUserProjectInfo" ->
         MemberAt(projectUserInfo, settled.workspaceSlug, settled.projectId) = settled.response
    [] OTHER -> TRUE
CachedRoleIsLast ==
  CASE settled.op = "fetchUserProjectInfo" ->
         RoleAt(projectPermissions, settled.workspaceSlug, settled.projectId)
           = IF settled.response = Undefined THEN Undefined
             ELSE RoleValue(settled.response.role)
    [] settled.op = "fetchUserProjectPermissions" ->
         \A p \in Projects :
           RoleAt(projectPermissions, settled.workspaceSlug, p)
             = IF p \in DOMAIN settled.response.entries
               THEN settled.response.entries[p] ELSE Undefined
    [] OTHER -> TRUE

\* C13 as stated: when the responses of two fetches that write the same key
\* have raced and no call is in flight any more, the cached value at that key
\* is the one the response that arrived last carries.
C13_LastResponseWins ==
  (inflight = EmptyBag /\ RacedForSameKey) =>
    /\ settled.op = settled.raced.op => CachedRecordIsLast
    /\ CachedRoleIsLast

\* C13 as amended: every call is in flight on its own, every response that
\* commits (one with a record, and any response of
\* fetchUserProjectPermissions) leaves what it carries in the cache whatever
\* arrived before it, and an empty response of fetchUserWorkspaceInfo or
\* fetchUserProjectInfo leaves the maps as the earlier responses left them.
C13_LastCommittedResponseWins ==
  /\ settled = NotSettled => BagCardinality(inflight) = calls
  /\ (settled.remote = "fulfilled" /\ settled.op \in FetchOps) =>
       IF settled.op = "fetchUserProjectPermissions" \/ settled.response # Undefined
       THEN CachedRecordIsLast /\ CachedRoleIsLast
       ELSE maps = settled.before

\* fetchUserProjectInfo(ws, p) and fetchUserProjectPermissions(ws) were in
\* flight together; the bulk response arrived last and its role for p has
\* replaced the one the first response had written
C13_Witness ==
  \E ws \in Workspaces, p \in Projects :
    /\ inflight = EmptyBag
    /\ RacedForSameKey
    /\ Fulfilled("fetchUserProjectPermissions", ws, NoId)
    /\ settled.raced = [op |-> "fetchUserProjectInfo", projectId |-> p]
    /\ RoleAt(BeforeProjectPermissions, ws, p) = RoleValue(GUEST)
    /\ RoleAt(projectPermissions, ws, p) = RoleValue(ADMIN)

\* the calls of the fetch actions
FetchRequests ==
  {Request("fetchUserWorkspaceInfo", ws, NoId) : ws \in Workspaces}
    \cup {Request("fetchUserProjectInfo", ws, p) : ws \in Workspaces, p \in Projects}
    \cup {Request("fetchUserProjectPermissions", ws, NoId) : ws \in Workspaces}
\* the continuation settled last has written at no key but those its own
\* arguments name
OnlyOwnKeysWritten ==
  LET ws == settled.workspaceSlug
      p == settled.projectId
  IN  CASE settled.op = "fetchUserWorkspaceInfo" ->
             /\ OtherWorkspacesUnchanged(workspaceUserInfo, BeforeWorkspaceUserInfo, ws)
             /\ projectUserInfo = BeforeProjectUserInfo
             /\ projectPermissions = BeforeProjectPermissions
        [] settled.op = "fetchUserProjectInfo" ->
             /\ workspaceUserInfo = BeforeWorkspaceUserInfo
             /\ OtherWorkspacesUnchanged(projectUserInfo, BeforeProjectUserInfo, ws)
             /\ OtherWorkspacesUnchanged(projectPermissions, BeforeProjectPermissions, ws)
             /\ \A q \in Projects \ {p} :
                  /\ MemberAt(projectUserInfo, ws, q) = MemberAt(BeforeProjectUserInfo, ws, q)
                  /\ RoleAt(projectPermissions, ws, q) = RoleAt(BeforeProjectPermissions, ws, q)
        [] settled.op = "fetchUserProjectPermissions" ->
             /\ workspaceUserInfo = BeforeWorkspaceUserInfo
             /\ projectUserInfo = BeforeProjectUserInfo
             /\ OtherWorkspacesUnchanged(projectPermissions, BeforeProjectPermissions, ws)
        [] OTHER -> TRUE
\* the write of the fetch settled last is in the cache
FetchedWriteCached == CachedRecordIsLast /\ CachedRoleIsLast

\* C14: no fetch stays in flight for ever: each one that has been called is
\* settled in the end, whatever is committed in the meantime; and when it
\* settles with a record its write is committed by that very continuation,
\* also after a leaveWorkspace of its workspace, at the keys its own arguments
\* name and nowhere else.
C14_NoCancellation ==
  /\ []<>(\A request \in FetchRequests : ~Pending(request))
  /\ []((settled.remote = "fulfilled" /\ settled.op \in FetchOps /\ settled.response # Undefined)
          => (FetchedWriteCached /\ OnlyOwnKeysWritten))

\* the record of a project arrives after the user has left its workspace, the
\* fetch having been in flight when the leave was committed, and is cached
C14_Witness ==
  \E ws \in Workspaces, p \in Projects :
    /\ Fulfilled("fetchUserProjectInfo", ws, p)
    /\ settled.raced.op = "leaveWorkspace"
    /\ ws \in leftWorkspaces
    /\ settled.response = MemberRecord(MEMBER)
    /\ ws \notin DOMAIN BeforeProjectUserInfo
    /\ MemberAt(projectUserInfo, ws, p) = MemberRecord(MEMBER)
    /\ RoleAt(projectPermissions, ws, p) = RoleValue(MEMBER)

\* the decision of allowPermissions on a role number (0: no role)
Decision(role, allowed, cb) ==
  IF role = 0 \/ role \notin allowed THEN FALSE
  ELSE IF cb.supplied THEN cb.returns ELSE TRUE

\* a call of allowPermissions without the optional callback
NoCallback == [supplied |-> FALSE, returns |-> FALSE]

\* C15: a call of allowPermissions with workspaceSlug or projectId omitted
\* returns what the same call returns with the router's current workspaceSlug
\* or projectId in the omitted places; and a call with both supplied is
\* decided on the role of the supplied pair, wherever the router is.  (The
\* callback is consulted after the scope is resolved: C1 has it in all cases.)
C15_DefaultScope ==
  \A allowed \in AllowedRoleSets, level \in Levels, wsArg \in SlugArgs, pArg \in ProjectArgs :
    IF wsArg # NoId /\ pArg # NoId
    THEN allowPermissions(allowed, level, NoCallback, wsArg, pArg)
           = Returns(Decision(KnownRole(level, wsArg, pArg), allowed, NoCallback))
    ELSE allowPermissions(allowed, level, NoCallback, wsArg, pArg)
           = allowPermissions(allowed, level, NoCallback, ScopeOf(wsArg, router.workspaceSlug),
                              ScopeOf(pArg, router.projectId))

\* the router is at a project with no known role; a check for an ADMIN project
\* of the other workspace is granted when that pair is supplied, refused when
\* the arguments are omitted, as it is for the router's pair
C15_Witness ==
  \E ws \in Workspaces, other \in Workspaces, p \in Projects, q \in Projects :
    /\ ws # other
    /\ router = [workspaceSlug |-> other, projectId |-> q]
    /\ KnownRole(PROJECT, ws, p) = ADMIN
    /\ KnownRole(PROJECT, other, q) = 0
    /\ KnownRole(PROJECT, ws, q) = 0
    /\ allowPermissions({ADMIN}, PROJECT, [supplied |-> FALSE, returns |-> FALSE], ws, p)
         = Returns(TRUE)
    /\ allowPermissions({ADMIN}, PROJECT, [supplied |-> FALSE, returns |-> FALSE], NoId, NoId)
         = Returns(FALSE)
    /\ allowPermissions({ADMIN}, PROJECT, [supplied |-> FALSE, returns |-> FALSE], other, q)
         = Returns(FALSE)
    /\ allowPermissions({ADMIN}, PROJECT, [supplied |-> FALSE, returns |-> FALSE], ws, NoId)
         = Returns(FALSE)

\* C18: whatever action of workspace ws settled last, with a response or with
\* an error, the entries of every other workspace in the three maps are as
\* its continuation found them; and after fetchUserProjectInfo(ws, p) or
\* joinProject(ws, p) so are the record and the role of every other project
\* of ws.
C18_WorkspaceIsolation ==
  LET ws == settled.workspaceSlug
      p == settled.projectId
  IN  /\ OtherWorkspacesUnchanged(workspaceUserInfo, BeforeWorkspaceUserInfo, ws)
      /\ OtherWorkspacesUnchanged(projectUserInfo, BeforeProjectUserInfo, ws)
      /\ OtherWorkspacesUnchanged(projectPermissions, BeforeProjectPermissions, ws)
      /\ settled.op \in {"fetchUserProjectInfo", "joinProject"} =>
           \A q \in Projects \ {p} :
             /\ MemberAt(projectUserInfo, ws, q) = MemberAt(BeforeProjectUserInfo, ws, q)
             /\ RoleAt(projectPermissions, ws, q) = RoleAt(BeforeProjectPermissions, ws, q)

\* the record of a project of ws is written while the other workspace has a
\* role cached for a project
C18_Witness ==
  \E ws \in Workspaces, other \in Workspaces, p \in Projects, q \in Projects :
    /\ ws # other
    /\ Fulfilled("fetchUserProjectInfo", ws, p)
    /\ settled.response # Undefined
    /\ RoleAt(projectPermissions, other, q) # Undefined
    /\ RoleAt(BeforeProjectPermissions, ws, p) = Undefined
    /\ RoleAt(projectPermissions, ws, p) # Undefined

\* C19: when the remote call of fetchUserWorkspaceInfo, fetchUserProjectInfo
\* or joinProject succeeds with an empty response, the action resolves with
\* that response and the three maps are as they were; when that of
\* fetchUserProjectPermissions(ws) does, undefined is written as the slice of
\* ws and no project of ws has a known role.
C19_EmptyResponse ==
  (settled.remote = "fulfilled" /\ settled.response = Undefined) =>
    /\ settled.op \in {"fetchUserWorkspaceInfo", "fetchUserProjectInfo", "joinProject"} =>
         /\ settled.outcome = "returned"
         /\ settled.value = Undefined
         /\ maps = settled.before
    /\ settled.op = "fetchUserProjectPermissions" =>
         /\ settled.outcome = "returned"
         /\ settled.value = Undefined
         /\ settled.workspaceSlug \in DOMAIN projectPermissions
         /\ projectPermissions[settled.workspaceSlug] = Undefined
         /\ \A p \in Projects :
              projectPermissionsByWorkspaceSlugAndProjectId(settled.workspaceSlug, p) = Undefined

\* an empty response of fetchUserProjectPermissions(ws) has made a cached role
\* of ws unknown
C19_Witness ==
  \E ws \in Workspaces, p \in Projects :
    /\ Fulfilled("fetchUserProjectPermissions", ws, NoId)
    /\ settled.response = Undefined
    /\ RoleAt(BeforeProjectPermissions, ws, p) # Undefined
    /\ projectPermissionsByWorkspaceSlugAndProjectId(ws, p) = Undefined

\* the role a decision is taken on, as a function of a workspaceUserInfo and a
\* projectPermissions (0: no role)
RoleIn(info, permissions, level, ws, p) ==
  IF level = WORKSPACE THEN InfoAt(info, ws).role ELSE RoleAt(permissions, ws, p).role

\* C20: what allowPermissions returns is a function of workspaceUserInfo,
\* projectPermissions and its arguments, so two states that differ in
\* projectUserInfo only get the same answers; a PROJECT check is decided on
\* the role index alone, whatever role the workspace record holds; and after a
\* successful leaveProject(ws, p) every PROJECT check for (ws, p) is refused,
\* whatever record projectUserInfo still holds for the project.
C20_MembershipRecordsIgnored ==
  /\ \A allowed \in AllowedRoleSets, level \in Levels, ws \in Workspaces, p \in Projects :
       allowPermissions(allowed, level, NoCallback, ws, p)
         = Returns(Decision(RoleIn(workspaceUserInfo, projectPermissions, level, ws, p),
                            allowed, NoCallback))
  /\ \A ws \in Workspaces, p \in Projects :
       Fulfilled("leaveProject", ws, p) =>
         \A allowed \in AllowedRoleSets, cb \in Callbacks :
           allowPermissions(allowed, PROJECT, cb, ws, p) = Returns(FALSE)

\* the user has left a project whose ADMIN membership record is still cached:
\* a PROJECT check that admits every role is refused
C20_Witness ==
  \E ws \in Workspaces, p \in Projects :
    /\ Fulfilled("leaveProject", ws, p)
    /\ MemberAt(projectUserInfo, ws, p) = MemberRecord(ADMIN)
    /\ RoleAt(BeforeProjectPermissions, ws, p) = RoleValue(ADMIN)
    /\ allowPermissions(Roles, PROJECT, NoCallback, ws, p) = Returns(FALSE)

\* the runs of the issues loader
IssuesRuns == {i \in DOMAIN loaderRuns : loaderRuns[i].hook = "issues"}
\* the places of an event in a trace
Places(trace, what, fn) == {k \in DOMAIN trace : trace[k] = Event(what, fn)}
\* in the trace, fn is called only after the awaited call of before was fulfilled
CalledAfterFulfilled(trace, fn, before) ==
  \A k \in Places(trace, "called", fn) :
    \E j \in Places(trace, "fulfilled", before) : j < k

\* C16: every run of the issues loader was started with workspaceSlug and
\* globalViewId defined; in it fetchFilters is called only after
\* fetchAllGlobalViews was fulfilled, fetchIssues only after fetchFilters was,
\* routerFilterParams and updateFilters only after fetchIssues was; each is
\* called once at most; and nothing is called after an awaited call was
\* rejected.
C16_FetchSequencing ==
  \A i \in IssuesRuns :
    LET run == loaderRuns[i]
        trace == run.trace
    IN  /\ run.workspaceSlug # NoId /\ run.globalViewId # NoId
        /\ trace # <<>> /\ trace[1] = Event("called", "fetchAllGlobalViews")
        /\ CalledAfterFulfilled(trace, "fetchFilters", "fetchAllGlobalViews")
        /\ CalledAfterFulfilled(trace, "fetchIssues", "fetchFilters")
        /\ CalledAfterFulfilled(trace, "routerFilterParams", "fetchIssues")
        /\ CalledAfterFulfilled(trace, "updateFilters", "fetchIssues")
        /\ \A fn \in AwaitedCalls \cup {"routerFilterParams", "updateFilters"} :
             Cardinality(Places(trace, "called", fn)) <= 1
        /\ \A fn \in AwaitedCalls :
             \A k \in Places(trace, "rejected", fn) : k = Len(trace)

\* one run of the loader has gone through its three awaits and has handed the
\* route filters of a static view to updateFilters, another has stopped at a
\* rejected fetchFilters
C16_Witness ==
  \E i \in IssuesRuns, j \in IssuesRuns :
    /\ loaderRuns[i].trace =
         <<Event("called", "fetchAllGlobalViews"), Event("fulfilled", "fetchAllGlobalViews"),
           Event("called", "fetchFilters"), Event("fulfilled", "fetchFilters"),
           Event("called", "fetchIssues"), Event("fulfilled", "fetchIssues"),
           Event("called", "routerFilterParams"), Event("called", "updateFilters")>>
    /\ loaderRuns[j].trace =
         <<Event("called", "fetchAllGlobalViews"), Event("fulfilled", "fetchAllGlobalViews"),
           Event("called", "fetchFilters"), Event("rejected", "fetchFilters")>>
    /\ query.globalViewId = NoId

\* the role of a project in the project roles of the current workspace (0: none)
RoleInCurrentWorkspace(projectId) ==
  IF /\ currentWorkspaceAllProjectsRole.kind = "object"
     /\ projectId \in DOMAIN currentWorkspaceAllProjectsRole.entries
  THEN currentWorkspaceAllProjectsRole.entries[projectId].role
  ELSE 0

\* C17: canEditProperties(projectId) is true exactly when projectId is defined
\* and the project roles of the current workspace hold for it a role that is
\* MEMBER or higher (MEMBER or ADMIN, not GUEST); it is false for an undefined
\* projectId and for a project with no role; and the quick actions rendered for
\* an issue are read-only exactly when canEditProperties of its project_id is
\* false.
C17_EditGating ==
  /\ canEditProperties(NoId) = FALSE
  /\ \A projectId \in Projects :
       /\ canEditProperties(projectId) <=> RoleInCurrentWorkspace(projectId) \in {MEMBER, ADMIN}
       /\ RoleInCurrentWorkspace(projectId) = 0 => ~canEditProperties(projectId)
  /\ quickActions # NotRendered =>
       /\ quickActions.readOnly <=> ~canEditProperties(quickActions.issue.project_id)
       /\ quickActions.readOnly <=>
            RoleInCurrentWorkspace(quickActions.issue.project_id) \notin {MEMBER, ADMIN}

\* the user is MEMBER of one project and GUEST of the other: the quick actions
\* of an issue of the second are rendered read-only, and properties can be
\* edited in the first only
C17_Witness ==
  \E p \in Projects, q \in Projects :
    /\ RoleInCurrentWorkspace(p) = MEMBER
    /\ RoleInCurrentWorkspace(q) = GUEST
    /\ canEditProperties(p) /\ ~canEditProperties(q)
    /\ quickActions.issue.project_id = q
    /\ quickActions.readOnly
=============================================================================
